---- MODULE Spec2Model ----
(***************************************************************************)
(* Model of the AtScale aggregate utility's token provider (config.py) and *)
(* API adapter (api_client.py).                                            *)
(*                                                                         *)
(* Python values are modelled as follows.                                  *)
(*   - Optional[x]: a sequence of length at most one, None == <<>> and     *)
(*     Some(x) == <<x>>.  A key missing from a dict read with .get() is    *)
(*     None.                                                               *)
(*   - str values of the configuration, HTTP text bodies and tokens: a     *)
(*     sequence of one-character strings, so that str.strip() and          *)
(*     truthiness are computed and not assumed.                            *)
(*   - JSON payloads: functions from key names to values; d.get(k, dflt)   *)
(*     is Get(d, k, dflt).                                                 *)
(***************************************************************************)
EXTENDS Integers, Sequences, FiniteSets, TLC

VARIABLES
    config,                 \* the content of config.json, read by load_config()
    JWT_CACHE,              \* config._JWT_CACHE
    CONTAINER_JWT_CACHE,    \* config._CONTAINER_JWT_CACHE
    self_config,            \* AtScaleAPIClient.config (None before construction)
    last                    \* the last call made: its arguments and its outcome

vars == <<config, JWT_CACHE, CONTAINER_JWT_CACHE, self_config, last>>

\* What `last` holds of a call: the operation and its arguments, how it ended
\* (outcome, value or error), the requests it sent and the lines it printed,
\* the two cache slots as they were when it began, and whether it follows
\* clear_jwt_cache().
CallRecord(op, outcome, args, pre_JWT, pre_CONTAINER_JWT, after_clear, error, out, reqs, value) ==
    [op |-> op, outcome |-> outcome, args |-> args,
     pre_JWT |-> pre_JWT, pre_CONTAINER_JWT |-> pre_CONTAINER_JWT,
     after_clear |-> after_clear,
     error |-> error, out |-> out, reqs |-> reqs, value |-> value]

---------------------------------------------------------------------------
(* Bounds of the model *)

\* longest HTTP text body of the auth endpoint
MaxBodyLen == 1
\* most configuration fields that are absent or empty in one profile
MaxMissing == 2

---------------------------------------------------------------------------
(* Python values *)

None == <<>>
Some(x) == <<x>>

\* bool(s) of an Optional[str]: None and "" are falsy
Truthy(o) == o # None /\ Len(o[1]) > 0

Chars == {" ", "j"}
IsSpace(c) == c = " "

RECURSIVE LStrip(_)
LStrip(s) ==
    IF s # <<>> /\ IsSpace(Head(s)) THEN LStrip(Tail(s)) ELSE s

RECURSIVE RStrip(_)
RStrip(s) ==
    IF s # <<>> /\ IsSpace(s[Len(s)]) THEN RStrip(SubSeq(s, 1, Len(s) - 1)) ELSE s

\* str.strip()
Strip(s) == RStrip(LStrip(s))

RECURSIVE StringsUpTo(_)
StringsUpTo(n) ==
    IF n = 0 THEN {<<>>}
    ELSE LET shorter == StringsUpTo(n - 1)
         IN  shorter \cup {Append(s, c) : s \in shorter, c \in Chars}

EmptyDict == <<>>
Get(d, k, dflt) == IF k \in DOMAIN d THEN d[k] ELSE dflt

---------------------------------------------------------------------------
(* config.json *)

InstanceTypes == {Some("installer"), Some("container"), Some("cloud"), None}

TextFields ==
    {"host", "organization", "username", "password", "token", "client_id", "client_secret"}

FieldValue == [host |-> <<"h">>, organization |-> <<"o">>, username |-> <<"u">>,
               password |-> <<"p">>, token |-> <<"t">>, client_id |-> <<"c">>,
               client_secret |-> <<"s">>]

\* The profile of the given instance type in which the fields of `absent` are
\* missing and the fields of `empty` hold "".
Profile(kind, absent, empty) ==
    [f \in TextFields \cup {"instance_type"} |->
        IF f = "instance_type" THEN kind
        ELSE IF f \in absent THEN None
        ELSE IF f \in empty THEN Some(<<>>)
        ELSE Some(FieldValue[f])]

\* which fields are absent and which are empty: at most MaxMissing in all
Defects ==
    {d \in (SUBSET TextFields) \X (SUBSET TextFields) :
        d[1] \cap d[2] = {} /\ Cardinality(d[1] \cup d[2]) <= MaxMissing}

Profiles == {Profile(kind, d[1], d[2]) : kind \in InstanceTypes, d \in Defects}

\* the fields a Container profile may do without: the static token and the
\* OIDC client (no other instance type reads them)
OptionalFields == {"token", "client_id", "client_secret"}

\* the complete profile of every instance type, and the Container profiles
\* that lack at most MaxMissing optional fields
AdapterProfiles ==
    {Profile(kind, {}, {}) : kind \in InstanceTypes}
    \cup {Profile(Some("container"), absent, {}) :
             absent \in {a \in SUBSET OptionalFields : Cardinality(a) <= MaxMissing}}

IsInstaller(cfg) == cfg.instance_type = Some("installer")
IsContainer(cfg) == cfg.instance_type = Some("container")

---------------------------------------------------------------------------
(* HTTP: requests issued and responses received *)

\* requests raises a RequestException subclass when no response arrives
TransportFailures == {"ConnectionError", "Timeout"}

ErrorStatusCodes == {404, 500}

Failed(kind) == [kind |-> kind, status_code |-> 0]

\* Response.raise_for_status(): raises HTTPError for 4xx and 5xx
RaisesForStatus(resp) == resp.status_code >= 400 /\ resp.status_code < 600

\* the auth endpoint answers with a text body
AuthResponses ==
    {Failed(k) : k \in TransportFailures}
    \cup {[kind |-> "response", status_code |-> s, text |-> <<>>] : s \in ErrorStatusCodes}
    \cup {[kind |-> "response", status_code |-> 200, text |-> b] :
             b \in StringsUpTo(MaxBodyLen)}

\* the OIDC token endpoint answers with JSON (json = None: the body is not JSON)
OidcPayloads == {EmptyDict, [access_token |-> <<>>], [access_token |-> <<"k">>]}

OidcResponses ==
    {Failed(k) : k \in TransportFailures}
    \cup {[kind |-> "response", status_code |-> s, json |-> None] :
             s \in ErrorStatusCodes \cup {200}}
    \cup {[kind |-> "response", status_code |-> 200, json |-> Some(p)] : p \in OidcPayloads}

\* an entry of the request log: the request and how the network answered it
Sent(req, resp) == [request |-> req, response |-> resp]

---------------------------------------------------------------------------
(* Outcomes of a call *)

NoError == [type |-> "none", what |-> "", status_code |-> 0]
Error(type, what) == [type |-> type, what |-> what, status_code |-> 0]
HTTPError(resp) == [type |-> "HTTPError", what |-> "", status_code |-> resp.status_code]

\* the exception a request raises: the transport failure, or raise_for_status()
RequestError(resp) ==
    IF resp.kind = "response" THEN HTTPError(resp) ELSE Error(resp.kind, "")

\* A finished call of a token-provider function: how it ended, the cache slot
\* it owns afterwards, the requests it issued and the lines it printed.
Return(value, cache, reqs, out) ==
    [outcome |-> "return", value |-> value, error |-> NoError,
     cache |-> cache, reqs |-> reqs, out |-> out]

Raise(error, cache, reqs, out) ==
    [outcome |-> "raise", value |-> None, error |-> error,
     cache |-> cache, reqs |-> reqs, out |-> out]

---------------------------------------------------------------------------
(* config.py: the token provider *)

AuthTimeout == 15
AuthPort == 10500

\* the fields get_jwt reads of an Installer profile, with a host that has a scheme
HasAuthFields(cfg) ==
    /\ cfg.host # None /\ cfg.host[1] # <<>>
    /\ cfg.username # None /\ cfg.password # None /\ cfg.organization # None

AuthRequest(cfg) ==
    [endpoint |-> "auth", method |-> "GET",
     url |-> [host |-> cfg.host[1], port |-> AuthPort,
              path |-> <<cfg.organization[1], "auth">>, query |-> EmptyDict],
     auth |-> Some(<<cfg.username[1], cfg.password[1]>>),
     headers |-> EmptyDict, json |-> None, data |-> None,
     timeout |-> AuthTimeout]

\* get_jwt, Installer flow past the cache: the auth request and the cache write
installer_flow(cfg, cache, resp) ==
    IF cfg.host = None THEN Raise(Error("KeyError", "host"), cache, <<>>, <<>>)
    ELSE IF cfg.username = None
        THEN Raise(Error("KeyError", "username"), cache, <<>>, <<>>)
    ELSE IF cfg.password = None
        THEN Raise(Error("KeyError", "password"), cache, <<>>, <<>>)
    ELSE IF cfg.organization = None
        THEN Raise(Error("KeyError", "organization"), cache, <<>>, <<>>)
    ELSE IF cfg.host[1] = <<>>
        \* normalize_host("") = "": the URL has no scheme and requests refuses it
        THEN Raise(Error("MissingSchema", ""), cache, <<>>, <<>>)
    ELSE LET sent == <<Sent(AuthRequest(cfg), resp)>> IN
        IF resp.kind # "response" \/ RaisesForStatus(resp)
        THEN Raise(RequestError(resp), cache, sent, <<>>)
        ELSE LET token == Some(Strip(resp.text)) IN Return(token, token, sent, <<>>)

\* the Container branch that keeps the static token in the public slot
static_flow_caches(cfg, cache) ==
    IF IsContainer(cfg) THEN
        IF ~Truthy(cfg.token)
        THEN Raise(Error("ValueError", "token required"), cache, <<>>, <<>>)
        ELSE Return(cfg.token, cfg.token, <<>>, <<>>)
    ELSE Raise(Error("ValueError", "unknown instance_type"), cache, <<>>, <<>>)

\* get_jwt, the branches of the other instance types
static_flow(cfg, cache) ==
    IF IsContainer(cfg) THEN
        IF ~Truthy(cfg.token)
        THEN Raise(Error("ValueError", "token required"), cache, <<>>, <<>>)
        ELSE Return(cfg.token, cache, <<>>, <<>>)
    ELSE Raise(Error("ValueError", "unknown instance_type"), cache, <<>>, <<>>)

\* get_jwt that drops the cached token before it refreshes
get_jwt_drops_cache(cfg, cache, force_refresh, resp) ==
    IF IsInstaller(cfg) THEN
        IF Truthy(cache) /\ ~force_refresh THEN Return(cache, cache, <<>>, <<>>)
        ELSE installer_flow(cfg, None, resp)
    ELSE static_flow(cfg, cache)

\* get_jwt(force_refresh); the value returned is Some(token)
get_jwt(cfg, cache, force_refresh, resp) ==
    IF IsInstaller(cfg) THEN
        IF Truthy(cache) /\ ~force_refresh THEN Return(cache, cache, <<>>, <<>>)
        ELSE installer_flow(cfg, cache, resp)
    ELSE static_flow(cfg, cache)

OidcRequest(cfg) ==
    [endpoint |-> "oidc", method |-> "POST",
     url |-> [host |-> cfg.host[1], port |-> 0,
              path |-> <<"auth", "realms", "atscale", "protocol", "openid-connect", "token">>,
              query |-> EmptyDict],
     auth |-> None, headers |-> EmptyDict, json |-> None,
     data |-> Some([client_id |-> cfg.client_id[1], client_secret |-> cfg.client_secret[1],
                    username |-> cfg.username[1], password |-> cfg.password[1],
                    grant_type |-> "password"]),
     timeout |-> AuthTimeout]

\* a printed line
Line(text, status) == [text |-> text, status |-> status]

JwtWarning == Line("Warning: Failed to get container JWT", None)

\* the OIDC flow that raises when a credential is missing
oidc_flow_raises(cfg, cache, resp) ==
    IF cfg.host = None THEN Raise(Error("KeyError", "host"), cache, <<>>, <<>>)
    ELSE IF ~(/\ Truthy(cfg.client_id) /\ Truthy(cfg.client_secret)
              /\ Truthy(cfg.username) /\ Truthy(cfg.password))
        THEN Raise(Error("ValueError", "credentials required"), cache, <<>>, <<>>)
    ELSE IF cfg.host[1] = <<>>
        THEN Return(None, cache, <<>>, <<JwtWarning>>)
    ELSE LET sent == <<Sent(OidcRequest(cfg), resp)>> IN
        IF resp.kind # "response" \/ RaisesForStatus(resp) \/ resp.json = None
        THEN Return(None, cache, sent, <<JwtWarning>>)
        ELSE LET token == IF "access_token" \in DOMAIN resp.json[1]
                          THEN Some(resp.json[1].access_token) ELSE None
             IN  Return(token, token, sent, <<>>)

\* the OIDC flow that lets the failure of the exchange out
oidc_flow_propagates(cfg, cache, resp) ==
    IF cfg.host = None THEN Raise(Error("KeyError", "host"), cache, <<>>, <<>>)
    ELSE IF ~(/\ Truthy(cfg.client_id) /\ Truthy(cfg.client_secret)
              /\ Truthy(cfg.username) /\ Truthy(cfg.password))
        THEN Return(None, cache, <<>>, <<>>)
    ELSE IF cfg.host[1] = <<>>
        THEN Return(None, cache, <<>>, <<JwtWarning>>)
    ELSE LET sent == <<Sent(OidcRequest(cfg), resp)>> IN
        IF resp.kind # "response" \/ RaisesForStatus(resp)
        THEN Raise(RequestError(resp), cache, sent, <<>>)
        ELSE IF resp.json = None
        THEN Return(None, cache, sent, <<JwtWarning>>)
        ELSE LET token == IF "access_token" \in DOMAIN resp.json[1]
                          THEN Some(resp.json[1].access_token) ELSE None
             IN  Return(token, token, sent, <<>>)

\* get_container_jwt past the cache: the credentials and the OIDC exchange
oidc_flow(cfg, cache, resp) ==
    IF cfg.host = None THEN Raise(Error("KeyError", "host"), cache, <<>>, <<>>)
    ELSE IF ~(/\ Truthy(cfg.client_id) /\ Truthy(cfg.client_secret)
              /\ Truthy(cfg.username) /\ Truthy(cfg.password))
        THEN Return(None, cache, <<>>, <<>>)
    ELSE IF cfg.host[1] = <<>>
        \* the URL has no scheme: requests.post raises inside the try block
        THEN Return(None, cache, <<>>, <<JwtWarning>>)
    ELSE LET sent == <<Sent(OidcRequest(cfg), resp)>> IN
        IF resp.kind # "response" \/ RaisesForStatus(resp) \/ resp.json = None
        THEN Return(None, cache, sent, <<JwtWarning>>)
        ELSE LET token == IF "access_token" \in DOMAIN resp.json[1]
                          THEN Some(resp.json[1].access_token) ELSE None
             IN  Return(token, token, sent, <<>>)

\* get_container_jwt that looks in the cache before it looks at the instance type
get_container_jwt_cache_first(cfg, cache, force_refresh, resp) ==
    IF Truthy(cache) /\ ~force_refresh THEN Return(cache, cache, <<>>, <<>>)
    ELSE IF ~IsContainer(cfg)
    THEN Raise(Error("ValueError", "only container"), cache, <<>>, <<>>)
    ELSE oidc_flow(cfg, cache, resp)

\* get_container_jwt(force_refresh); the value returned is None or Some(token)
get_container_jwt(cfg, cache, force_refresh, resp) ==
    IF ~IsContainer(cfg)
    THEN Raise(Error("ValueError", "only container"), cache, <<>>, <<>>)
    ELSE IF Truthy(cache) /\ ~force_refresh THEN Return(cache, cache, <<>>, <<>>)
    ELSE oidc_flow(cfg, cache, resp)

\* clear_jwt_cache that resets the private slot alone
clear_jwt_cache_private_only == [JWT |-> JWT_CACHE, CONTAINER_JWT |-> None]

\* clear_jwt_cache that resets the public slot alone
clear_jwt_cache_public_only == [JWT |-> None, CONTAINER_JWT |-> CONTAINER_JWT_CACHE]

\* clear_jwt_cache()
clear_jwt_cache == [JWT |-> None, CONTAINER_JWT |-> None]

---------------------------------------------------------------------------
(* Backend payloads (decoded JSON) *)

Without(d, keys) == [k \in DOMAIN d \ keys |-> d[k]]

FullStats ==
    [materializationStartTime |-> "t0", materializationEndTime |-> "t1",
     buildDuration |-> 7, numberOfRows |-> 5]

FullAgg ==
    [id |-> "i1", definitionId |-> "d1", catalogId |-> "p9", modelId |-> "c9",
     connectionId |-> "w1", status |-> "active", message |-> "m", tableName |-> "tn",
     tableSchema |-> "ts", buildQueryId |-> "q1", stats |-> FullStats]

\* records of /v1/aggregates/instances: the full record, the record with one
\* key missing, with one statistic missing, with empty statistics, and {}
AggRecords ==
    {FullAgg, EmptyDict, [FullAgg EXCEPT !.stats = EmptyDict]}
    \cup {Without(FullAgg, {k}) : k \in DOMAIN FullAgg}
    \cup {[FullAgg EXCEPT !.stats = Without(FullStats, {k})] : k \in DOMAIN FullStats}

AggLists ==
    {<<>>, <<Without(FullAgg, {"stats"}), FullAgg>>} \cup {<<r>> : r \in AggRecords}

ContainerAggPayloads == {EmptyDict} \cup {[data |-> l] : l \in AggLists}

\* an Installer answer, already in the canonical shape
CanonicalStats ==
    [materialization_start_time |-> "t0", materialization_end_time |-> "t1",
     build_duration |-> 7, number_of_rows |-> 5]

CanonicalInstance ==
    [id |-> "i1", status |-> "active", message |-> "m", table_name |-> "tn",
     table_schema |-> "ts", batch_id |-> "q1", connection_id |-> "w1",
     stats |-> CanonicalStats]

CanonicalAgg ==
    [id |-> "d1", name |-> "agg", type |-> "user_defined", subtype |-> "",
     attributes |-> <<>>, project_id |-> "p1", cube_id |-> "c1", connection_id |-> "w1",
     incremental |-> FALSE,
     stats |-> [created_at |-> "t0", average_build_duration |-> 7,
                query_utilization |-> 3, most_recent_query |-> "t1"],
     latest_instance |-> CanonicalInstance, active_instance |-> CanonicalInstance]

Envelope(data, total, limit, offset) ==
    [response |-> [data |-> data, total |-> total, limit |-> limit, offset |-> offset]]

InstallerAggPayloads ==
    {EmptyDict, Envelope(<<>>, 0, 200, 0), Envelope(<<CanonicalAgg>>, 1, 200, 0),
     [data |-> <<FullAgg>>]}

Batch == [id |-> "b1", status |-> "done", isFullBuild |-> TRUE]

ContainerHistoryPayloads ==
    {EmptyDict,
     [data |-> <<Batch>>, total |-> 1, limit |-> 20, offset |-> 0],
     [data |-> <<Without(Batch, {"id"}), Batch>>, total |-> 2]}

InstallerHistoryPayloads ==
    {EmptyDict, Envelope(<<Batch>>, 1, 20, 0), [data |-> <<Batch>>, total |-> 1]}

Cube == [id |-> "c1", name |-> "Sales", caption |-> "Sales cube"]
Catalog == [id |-> "p1", name |-> "Retail", models |-> <<Cube>>]

ContainerCatalogPayloads ==
    {<<>>, <<Catalog>>, <<Without(Catalog, {"name"})>>, <<Without(Catalog, {"models"})>>,
     <<[Catalog EXCEPT !.models = <<EmptyDict>>]>>, <<EmptyDict, Catalog>>}

InstallerProjectPayloads ==
    {EmptyDict, [response |-> <<>>], [response |-> <<[Catalog EXCEPT !.models = <<>>]>>],
     [response |-> <<[id |-> "p1", name |-> "Retail",
                      cubes |-> <<Cube, [id |-> "c2", name |-> "Stock"]>>]>>]}

\* what the other endpoints answer
PlainPayloads == {EmptyDict, [status |-> "ok"]}

\* the answers of a data endpoint that decodes to one of `payloads`
DataResponses(payloads) ==
    {Failed(k) : k \in TransportFailures}
    \cup {[kind |-> "response", status_code |-> s, json |-> None] :
             s \in ErrorStatusCodes \cup {200, 204}}
    \cup {[kind |-> "response", status_code |-> 200, json |-> Some(p)] : p \in payloads}

---------------------------------------------------------------------------
(* api_client.py: the adapter *)

DataPort == 10502
DataTimeout == 30
RebuildTimeout == 60
TransformLimit == 200
HistoryDefaultLimit == 20

\* the branch every method takes on self.config: "installer", else container
Backend(self) == IF IsInstaller(self) THEN "installer" ELSE "container"

\* AtScaleAPIClient.__init__ with _get_base_url: None when it raises
NewClientError(cfg) ==
    IF cfg.host = None THEN Error("KeyError", "host")
    ELSE IF IsInstaller(cfg) /\ cfg.organization = None THEN Error("KeyError", "organization")
    ELSE NoError

Url(self, installerPath, containerPath, args, query) ==
    [host |-> self.host[1],
     port |-> IF IsInstaller(self) THEN DataPort ELSE 0,
     path |-> IF IsInstaller(self) THEN installerPath ELSE containerPath,
     args |-> args, query |-> query]

\* _get_base_url() followed by the path of the backend
BaseUrl(self, installerPath, containerPath, aggregate_id) ==
    [host |-> self.host[1],
     port |-> IF IsInstaller(self) THEN AuthPort ELSE 0,
     path |-> IF IsInstaller(self) THEN installerPath ELSE containerPath,
     args |-> IF IsInstaller(self)
              THEN [org |-> self.organization[1], aggregate_id |-> aggregate_id]
              ELSE [aggregate_id |-> aggregate_id],
     query |-> EmptyDict]

Request(endpoint, method, url, json, timeout) ==
    [endpoint |-> endpoint, method |-> method, url |-> url, auth |-> None,
     headers |-> EmptyDict, json |-> json, data |-> None, timeout |-> timeout]

Bearer(token) == <<"Bearer", token>>

PublicHeaders(token) ==
    [k \in {"Authorization", "Content-Type", "Accept"} |->
        IF k = "Authorization" THEN Bearer(token) ELSE "application/json"]

\* _get_public_headers(): get_jwt() on the configuration file as it is now
get_public_headers(cfg, cache, authResp) ==
    LET t == get_jwt(cfg, cache, FALSE, authResp) IN
    IF t.outcome = "raise" THEN t ELSE [t EXCEPT !.value = PublicHeaders(t.value[1])]

WithHeaders(req, headers) == [req EXCEPT !.headers = headers]

\* requests.<method>(url, headers=self._get_public_headers(), ...), then
\* response.raise_for_status() and response.json()
FetchJson(h, req, resp) ==
    IF h.outcome = "raise" THEN h
    ELSE LET sent == Append(h.reqs, Sent(WithHeaders(req, h.value), resp)) IN
        IF resp.kind # "response" \/ RaisesForStatus(resp)
        THEN Raise(RequestError(resp), h.cache, sent, h.out)
        ELSE IF resp.json = None
        THEN Raise(Error("JSONDecodeError", ""), h.cache, sent, h.out)
        ELSE Return(resp.json[1], h.cache, sent, h.out)

\* apply f to the value a call returned
Then(r, value) == IF r.outcome = "raise" THEN r ELSE [r EXCEPT !.value = value]

\* _transform_container_catalogs
transform_container_catalogs(catalogs_data) ==
    [i \in 1..Len(catalogs_data) |->
        LET catalog == catalogs_data[i]
            models == Get(catalog, "models", <<>>)
        IN  [id |-> Get(catalog, "id", ""),
             name |-> Get(catalog, "name", "Unknown Catalog"),
             cubes |-> [j \in 1..Len(models) |->
                          [id |-> Get(models[j], "id", ""),
                           name |-> Get(models[j], "name", "Unknown Cube"),
                           caption |-> Get(models[j], "caption", ""),
                           type |-> "model"]]]]

\* get_published_projects()
get_published_projects(self, cfg, cache, authResp, resp) ==
    LET url == Url(self, "/projects/published/orgId/{org}", "/v1/catalogs",
                   IF IsInstaller(self) THEN [org |-> self.organization[1]] ELSE EmptyDict,
                   EmptyDict)
        r == FetchJson(get_public_headers(cfg, cache, authResp),
                       Request("projects", "GET", url, None, DataTimeout), resp)
    IN  IF r.outcome = "raise" THEN r
        ELSE IF IsInstaller(self) THEN Then(r, Get(r.value, "response", <<>>))
        ELSE Then(r, transform_container_catalogs(r.value))

\* the instance record of _transform_container_aggregates, with the statistics given
ContainerInstance(agg, stats) ==
    [id |-> Get(agg, "id", ""),
     status |-> Get(agg, "status", "unknown"),
     message |-> Get(agg, "message", ""),
     table_name |-> Get(agg, "tableName", ""),
     table_schema |-> Get(agg, "tableSchema", ""),
     batch_id |-> Get(agg, "buildQueryId", ""),
     connection_id |-> Get(agg, "connectionId", ""),
     stats |-> stats]

\* "latest_instance" of _transform_container_aggregates
latest_instance(agg) ==
    LET stats == Get(agg, "stats", EmptyDict) IN
    ContainerInstance(agg,
        [materialization_start_time |-> Get(stats, "materializationStartTime", ""),
         materialization_end_time |-> Get(stats, "materializationEndTime", ""),
         build_duration |-> Get(stats, "buildDuration", 0),
         number_of_rows |-> Get(stats, "numberOfRows", 0)])

\* "active_instance" of _transform_container_aggregates
active_instance(agg) == ContainerInstance(agg, Get(agg, "stats", EmptyDict))

\* _transform_container_aggregates
transform_container_aggregates(container_data, catalog_id, model_id) ==
    LET aggregates == Get(container_data, "data", <<>>)
        transformed(agg) ==
            [id |-> Get(agg, "definitionId", ""),
             name |-> Get(agg, "definitionId", ""),
             type |-> "system_defined",
             subtype |-> "prediction_defined",
             attributes |-> <<>>,
             project_id |-> Get(agg, "catalogId", catalog_id),
             cube_id |-> Get(agg, "modelId", model_id),
             connection_id |-> Get(agg, "connectionId", ""),
             incremental |-> FALSE,
             stats |-> [created_at |-> "",
                        average_build_duration |->
                            Get(Get(agg, "stats", EmptyDict), "buildDuration", 0),
                        query_utilization |-> 0,
                        most_recent_query |-> ""],
             latest_instance |-> latest_instance(agg),
             active_instance |-> active_instance(agg)]
    IN  Envelope([i \in 1..Len(aggregates) |-> transformed(aggregates[i])],
                 Len(aggregates), TransformLimit, 0)

\* the return statement of get_aggregates_by_cube that transforms on every backend
normalize_aggregates_always(self, data, catalog_id, model_id) ==
    transform_container_aggregates(data, catalog_id, model_id)

\* the return statement of get_aggregates_by_cube
normalize_aggregates(self, data, catalog_id, model_id) ==
    IF IsInstaller(self) THEN data
    ELSE transform_container_aggregates(data, catalog_id, model_id)

\* get_aggregates_by_cube(catalog_id, model_id, limit)
get_aggregates_by_cube(self, cfg, cache, catalog_id, model_id, limit, authResp, resp) ==
    LET url == Url(self, "/aggregates/orgId/{org}", "/v1/aggregates/instances",
                   IF IsInstaller(self) THEN [org |-> self.organization[1]] ELSE EmptyDict,
                   IF IsInstaller(self)
                   THEN [limit |-> limit, projectId |-> catalog_id, cubeId |-> model_id]
                   ELSE [catalogId |-> catalog_id, modelId |-> model_id])
        r == FetchJson(get_public_headers(cfg, cache, authResp),
                       Request("aggregates_by_cube", "GET", url, None, DataTimeout), resp)
    IN  Then(r, normalize_aggregates(self, r.value, catalog_id, model_id))

\* str(is_full_build).lower()
LowerStr(b) == IF b THEN "true" ELSE "false"

\* the URL of rebuild_cube
RebuildUrl(self, catalog_id, model_id, is_full_build) ==
    Url(self, "/aggregate-batch/orgId/{org}/projectId/{catalog_id}",
        "/v1/aggregates-batch/catalogs/{catalog_id}/models/{model_id}",
        IF IsInstaller(self)
        THEN [org |-> self.organization[1], catalog_id |-> catalog_id]
        ELSE [catalog_id |-> catalog_id, model_id |-> model_id],
        IF IsInstaller(self)
        THEN [cubeId |-> model_id, isFullBuild |-> LowerStr(is_full_build)]
        ELSE [isFullBuild |-> LowerStr(is_full_build)])

\* the request of rebuild_cube with the Container body on every backend
rebuild_request_always_json(self, catalog_id, model_id, is_full_build) ==
    Request("rebuild", "POST", RebuildUrl(self, catalog_id, model_id, is_full_build),
            Some([gracePeriodOverrides |-> EmptyDict]), RebuildTimeout)

\* the request of rebuild_cube: requests.post(url, ...) on Installer,
\* requests.post(url, json=data, ...) on Container
rebuild_request(self, catalog_id, model_id, is_full_build) ==
    Request("rebuild", "POST", RebuildUrl(self, catalog_id, model_id, is_full_build),
            IF IsInstaller(self) THEN None ELSE Some([gracePeriodOverrides |-> EmptyDict]),
            RebuildTimeout)

\* rebuild_cube(catalog_id, model_id, is_full_build)
rebuild_cube(self, cfg, cache, catalog_id, model_id, is_full_build, authResp, resp) ==
    FetchJson(get_public_headers(cfg, cache, authResp),
              rebuild_request(self, catalog_id, model_id, is_full_build), resp)

\* _transform_container_build_history
transform_container_build_history(container_data) ==
    LET history_data == Get(container_data, "data", <<>>) IN
    Envelope([i \in 1..Len(history_data) |->
                 [k \in {"batchId"} |-> Get(history_data[i], "id", "")] @@ history_data[i]],
             Get(container_data, "total", 0),
             Get(container_data, "limit", HistoryDefaultLimit),
             Get(container_data, "offset", 0))

HistoryWarning == Line("Build history unavailable", None)

\* bool(response): Response.__bool__ is Response.ok
ResponseTruthy(resp) == resp.kind = "response" /\ ~RaisesForStatus(resp)

\* the lines the except block of get_aggregate_build_history prints
HistoryFailureLines(resp) ==
    <<Line("Request failed with status",
           IF ResponseTruthy(resp) THEN Some(resp.status_code) ELSE None),
      Line("URL", None)>>
    \o (IF ResponseTruthy(resp) THEN <<Line("Response", None)>> ELSE <<>>)

\* a call of an adapter method that used the public slot only
Public(r, ccache) ==
    [outcome |-> r.outcome, value |-> r.value, error |-> r.error, reqs |-> r.reqs,
     out |-> r.out, JWT |-> r.cache, CONTAINER_JWT |-> ccache]

\* a call of an adapter method that used the private slot only
Private(r, cache) ==
    [outcome |-> r.outcome, value |-> r.value, error |-> r.error, reqs |-> r.reqs,
     out |-> r.out, JWT |-> cache, CONTAINER_JWT |-> r.cache]

\* the try block that sends the request a second time when the first fails
HistoryFetch_retries(h, req, resp) ==
    IF h.outcome = "raise" THEN h
    ELSE LET sent == Append(h.reqs, Sent(WithHeaders(req, h.value), resp)) IN
        IF resp.kind # "response" \/ RaisesForStatus(resp)
        THEN Raise(RequestError(resp), h.cache,
                   Append(sent, Sent(WithHeaders(req, h.value), resp)),
                   h.out \o HistoryFailureLines(resp))
        ELSE IF resp.json = None
        THEN Raise(Error("JSONDecodeError", ""), h.cache, sent, h.out)
        ELSE Return(resp.json[1], h.cache, sent, h.out)

\* the try block of get_aggregate_build_history and the decoding after it;
\* h is the call that produced the headers
HistoryFetch(h, req, resp) ==
    IF h.outcome = "raise" THEN h
    ELSE LET sent == Append(h.reqs, Sent(WithHeaders(req, h.value), resp)) IN
        IF resp.kind # "response" \/ RaisesForStatus(resp)
        THEN Raise(RequestError(resp), h.cache, sent, h.out \o HistoryFailureLines(resp))
        ELSE IF resp.json = None
        THEN Raise(Error("JSONDecodeError", ""), h.cache, sent, h.out)
        ELSE Return(resp.json[1], h.cache, sent, h.out)

\* build history that asks for the private token on every instance type
get_aggregate_build_history_private_always(self, cfg, cache, ccache, catalog_id, model_id, limit, authResp, oidcResp, resp) ==
    LET url == Url(self, "/aggregate-batch/orgId/{org}/history",
                   "/wapi/p/aggregate/batch-history",
                   IF IsInstaller(self) THEN [org |-> self.organization[1]] ELSE EmptyDict,
                   IF IsInstaller(self)
                   THEN [limit |-> limit, projectId |-> catalog_id, cubeId |-> model_id]
                   ELSE [page |-> 1, limit |-> limit, catalogId |-> catalog_id,
                         modelId |-> model_id])
        req == Request("build_history", "GET", url, None, DataTimeout)
    IN  LET t == get_container_jwt(cfg, ccache, FALSE, oidcResp) IN
            IF t.outcome = "raise" THEN Private(t, cache)
            ELSE IF ~Truthy(t.value)
            THEN Private(Return(Envelope(<<>>, 0, limit, 0), t.cache, t.reqs,
                                Append(t.out, HistoryWarning)), cache)
            ELSE LET h == [t EXCEPT !.value = [Authorization |-> Bearer(t.value[1])]]
                     r == HistoryFetch(h, req, resp)
                 IN  Private(Then(r, transform_container_build_history(r.value)), cache)

\* get_aggregate_build_history(catalog_id, model_id, limit)
get_aggregate_build_history(self, cfg, cache, ccache, catalog_id, model_id, limit, authResp, oidcResp, resp) ==
    LET url == Url(self, "/aggregate-batch/orgId/{org}/history",
                   "/wapi/p/aggregate/batch-history",
                   IF IsInstaller(self) THEN [org |-> self.organization[1]] ELSE EmptyDict,
                   IF IsInstaller(self)
                   THEN [limit |-> limit, projectId |-> catalog_id, cubeId |-> model_id]
                   ELSE [page |-> 1, limit |-> limit, catalogId |-> catalog_id,
                         modelId |-> model_id])
        req == Request("build_history", "GET", url, None, DataTimeout)
    IN  IF IsInstaller(self)
        THEN Public(HistoryFetch(get_public_headers(cfg, cache, authResp), req, resp), ccache)
        ELSE LET t == get_container_jwt(cfg, ccache, FALSE, oidcResp) IN
            IF t.outcome = "raise" THEN Private(t, cache)
            ELSE IF ~Truthy(t.value)
            THEN Private(Return(Envelope(<<>>, 0, limit, 0), t.cache, t.reqs,
                                Append(t.out, HistoryWarning)), cache)
            ELSE LET h == [t EXCEPT !.value = [Authorization |-> Bearer(t.value[1])]]
                     r == HistoryFetch(h, req, resp)
                 IN  Private(Then(r, transform_container_build_history(r.value)), cache)

\* get_aggregates()
get_aggregates(self, cfg, cache, authResp, resp) ==
    LET url == BaseUrl(self, "/aggregates", "/v1/aggregates/instances", "") IN
    FetchJson(get_public_headers(cfg, cache, authResp),
              Request("get_aggregates", "GET", url, None, DataTimeout), resp)

\* get_aggregate_details(aggregate_id)
get_aggregate_details(self, cfg, cache, aggregate_id, authResp, resp) ==
    LET url == BaseUrl(self, "/aggregates/{aggregate_id}",
                       "/v1/aggregates/instances/{aggregate_id}", aggregate_id) IN
    FetchJson(get_public_headers(cfg, cache, authResp),
              Request("get_aggregate_details", "GET", url, None, DataTimeout), resp)

\* create_aggregate(aggregate_data)
create_aggregate(self, cfg, cache, aggregate_data, authResp, resp) ==
    LET url == BaseUrl(self, "/aggregates", "/v1/aggregates/definitions", "") IN
    FetchJson(get_public_headers(cfg, cache, authResp),
              Request("create_aggregate", "POST", url, Some(aggregate_data), DataTimeout),
              resp)

\* update_aggregate(aggregate_id, aggregate_data)
update_aggregate(self, cfg, cache, aggregate_id, aggregate_data, authResp, resp) ==
    LET url == BaseUrl(self, "/aggregates/{aggregate_id}",
                       "/v1/aggregates/definitions/{aggregate_id}", aggregate_id) IN
    FetchJson(get_public_headers(cfg, cache, authResp),
              Request("update_aggregate", "PUT", url, Some(aggregate_data), DataTimeout),
              resp)

\* refresh_aggregate(aggregate_id)
refresh_aggregate(self, cfg, cache, aggregate_id, authResp, resp) ==
    LET url == BaseUrl(self, "/aggregates/{aggregate_id}/refresh",
                       "/v1/aggregates/instances/{aggregate_id}/refresh", aggregate_id) IN
    FetchJson(get_public_headers(cfg, cache, authResp),
              Request("refresh_aggregate", "POST", url, None, DataTimeout), resp)

\* delete_aggregate(aggregate_id)
delete_aggregate(self, cfg, cache, aggregate_id, authResp, resp) ==
    LET url == BaseUrl(self, "/aggregates/{aggregate_id}",
                       "/v1/aggregates/definitions/{aggregate_id}", aggregate_id)
        req == Request("delete_aggregate", "DELETE", url, None, DataTimeout)
        h == get_public_headers(cfg, cache, authResp)
    IN  IF h.outcome = "raise" THEN h
        ELSE LET sent == Append(h.reqs, Sent(WithHeaders(req, h.value), resp)) IN
            IF resp.kind # "response"
            THEN Raise(RequestError(resp), h.cache, sent, h.out)
            ELSE Return(resp.status_code = 200, h.cache, sent, h.out)

---------------------------------------------------------------------------
(* The state machine *)

\* arguments the callers pass
CatalogIds == {"p1"}
ModelIds == {"c1"}
Limits == {50, 200}
AggregateIds == {"a1"}
AggregateData == {[name |-> "agg"]}

NoArgs == EmptyDict

\* The network answers only the requests that are issued: a call that issues
\* none is given the one answer NoAnswer, which it never reads.
NoAnswer == Failed("ConnectionError")

AuthAnswers(cfg, cache, force_refresh) ==
    IF get_jwt(cfg, cache, force_refresh, NoAnswer).reqs = <<>>
    THEN {NoAnswer} ELSE AuthResponses

OidcAnswers(cfg, ccache, force_refresh) ==
    IF get_container_jwt(cfg, ccache, force_refresh, NoAnswer).reqs = <<>>
    THEN {NoAnswer} ELSE OidcResponses

\* the answers to the data request that follows the call h for the headers
DataAnswers(h, payloads) ==
    IF h.outcome = "raise" THEN {NoAnswer} ELSE DataResponses(payloads)

\* `last` after the call op(args) that ended as r
Call(op, args, r) ==
    CallRecord(op, r.outcome, args, JWT_CACHE, CONTAINER_JWT_CACHE,
               last.op = "clear_jwt_cache", r.error, r.out, r.reqs, r.value)

\* `last` before any call
NoCall ==
    CallRecord("start", "return", NoArgs, None, None, FALSE, NoError, <<>>, <<>>, None)

\* the caches are empty and no adapter exists when the process starts
Started(profiles) ==
    /\ config \in profiles
    /\ JWT_CACHE = None
    /\ CONTAINER_JWT_CACHE = None
    /\ self_config = None
    /\ last = NoCall

GetJwt ==
    \E force_refresh \in BOOLEAN :
    \E resp \in AuthAnswers(config, JWT_CACHE, force_refresh) :
        LET r == get_jwt(config, JWT_CACHE, force_refresh, resp) IN
        /\ JWT_CACHE' = r.cache
        /\ last' = Call("get_jwt", [force_refresh |-> force_refresh], r)
        /\ UNCHANGED <<config, CONTAINER_JWT_CACHE, self_config>>

GetContainerJwt ==
    \E force_refresh \in BOOLEAN :
    \E resp \in OidcAnswers(config, CONTAINER_JWT_CACHE, force_refresh) :
        LET r == get_container_jwt(config, CONTAINER_JWT_CACHE, force_refresh, resp) IN
        /\ CONTAINER_JWT_CACHE' = r.cache
        /\ last' = Call("get_container_jwt", [force_refresh |-> force_refresh], r)
        /\ UNCHANGED <<config, JWT_CACHE, self_config>>

ClearJwtCache ==
    /\ JWT_CACHE' = clear_jwt_cache.JWT
    /\ CONTAINER_JWT_CACHE' = clear_jwt_cache.CONTAINER_JWT
    /\ last' = Call("clear_jwt_cache", NoArgs, Return(None, None, <<>>, <<>>))
    /\ UNCHANGED <<config, self_config>>

\* AtScaleAPIClient()
NewClient ==
    LET error == NewClientError(config) IN
    /\ self_config' = IF error = NoError THEN Some(config) ELSE self_config
    /\ last' = Call("AtScaleAPIClient", NoArgs,
                    IF error = NoError THEN Return(None, None, <<>>, <<>>)
                    ELSE Raise(error, None, <<>>, <<>>))
    /\ UNCHANGED <<config, JWT_CACHE, CONTAINER_JWT_CACHE>>

\* a step of an adapter method that also resets the private slot
PublicStep_resets_private(op, args, r) ==
    /\ JWT_CACHE' = r.cache
    /\ CONTAINER_JWT_CACHE' = None
    /\ last' = Call(op, args, r)
    /\ UNCHANGED <<config, self_config>>

\* a step of an adapter method that reads and writes the public slot only
PublicStep(op, args, r) ==
    /\ JWT_CACHE' = r.cache
    /\ last' = Call(op, args, r)
    /\ UNCHANGED <<config, CONTAINER_JWT_CACHE, self_config>>

\* the payloads the backend of the adapter's branch answers with
ProjectPayloads(self) ==
    IF IsInstaller(self) THEN InstallerProjectPayloads ELSE ContainerCatalogPayloads

AggPayloads(self) ==
    IF IsInstaller(self) THEN InstallerAggPayloads ELSE ContainerAggPayloads

HistoryPayloads(self) ==
    IF IsInstaller(self) THEN InstallerHistoryPayloads ELSE ContainerHistoryPayloads

GetPublishedProjects ==
    /\ self_config # None
    /\ \E authResp \in AuthAnswers(config, JWT_CACHE, FALSE) :
       \E resp \in DataAnswers(get_public_headers(config, JWT_CACHE, authResp),
                               ProjectPayloads(self_config[1])) :
           PublicStep("get_published_projects", NoArgs,
                      get_published_projects(self_config[1], config, JWT_CACHE,
                                             authResp, resp))

GetAggregatesByCube ==
    /\ self_config # None
    /\ \E catalog_id \in CatalogIds, model_id \in ModelIds, limit \in Limits :
       \E authResp \in AuthAnswers(config, JWT_CACHE, FALSE) :
       \E resp \in DataAnswers(get_public_headers(config, JWT_CACHE, authResp),
                               AggPayloads(self_config[1])) :
           PublicStep("get_aggregates_by_cube",
                      [catalog_id |-> catalog_id, model_id |-> model_id, limit |-> limit],
                      get_aggregates_by_cube(self_config[1], config, JWT_CACHE,
                                             catalog_id, model_id, limit, authResp, resp))

RebuildCube ==
    /\ self_config # None
    /\ \E catalog_id \in CatalogIds, model_id \in ModelIds, is_full_build \in BOOLEAN :
       \E authResp \in AuthAnswers(config, JWT_CACHE, FALSE) :
       \E resp \in DataAnswers(get_public_headers(config, JWT_CACHE, authResp),
                               PlainPayloads) :
           PublicStep("rebuild_cube",
                      [catalog_id |-> catalog_id, model_id |-> model_id,
                       is_full_build |-> is_full_build],
                      rebuild_cube(self_config[1], config, JWT_CACHE,
                                   catalog_id, model_id, is_full_build, authResp, resp))

\* the answers to the build-history request: none is needed when the call
\* ends before the request
HistoryAnswers(self, cfg, cache, ccache, authResp, oidcResp) ==
    IF get_aggregate_build_history(self, cfg, cache, ccache, "", "", 0,
                                   authResp, oidcResp, NoAnswer).reqs
       \in {<<>>, get_container_jwt(cfg, ccache, FALSE, oidcResp).reqs,
            get_jwt(cfg, cache, FALSE, authResp).reqs}
    THEN {NoAnswer} ELSE DataResponses(HistoryPayloads(self))

GetAggregateBuildHistory ==
    /\ self_config # None
    /\ \E catalog_id \in CatalogIds, model_id \in ModelIds, limit \in Limits :
       \E authResp \in AuthAnswers(config, JWT_CACHE, FALSE) :
       \E oidcResp \in OidcAnswers(config, CONTAINER_JWT_CACHE, FALSE) :
       \E resp \in HistoryAnswers(self_config[1], config, JWT_CACHE, CONTAINER_JWT_CACHE,
                                  authResp, oidcResp) :
           LET r == get_aggregate_build_history(self_config[1], config, JWT_CACHE,
                        CONTAINER_JWT_CACHE, catalog_id, model_id, limit,
                        authResp, oidcResp, resp)
           IN  /\ JWT_CACHE' = r.JWT
               /\ CONTAINER_JWT_CACHE' = r.CONTAINER_JWT
               /\ last' = Call("get_aggregate_build_history",
                               [catalog_id |-> catalog_id, model_id |-> model_id,
                                limit |-> limit], r)
               /\ UNCHANGED <<config, self_config>>

GetAggregates ==
    /\ self_config # None
    /\ \E authResp \in AuthAnswers(config, JWT_CACHE, FALSE) :
       \E resp \in DataAnswers(get_public_headers(config, JWT_CACHE, authResp),
                               PlainPayloads) :
           PublicStep("get_aggregates", NoArgs,
                      get_aggregates(self_config[1], config, JWT_CACHE, authResp, resp))

GetAggregateDetails ==
    /\ self_config # None
    /\ \E aggregate_id \in AggregateIds :
       \E authResp \in AuthAnswers(config, JWT_CACHE, FALSE) :
       \E resp \in DataAnswers(get_public_headers(config, JWT_CACHE, authResp),
                               PlainPayloads) :
           PublicStep("get_aggregate_details", [aggregate_id |-> aggregate_id],
                      get_aggregate_details(self_config[1], config, JWT_CACHE,
                                            aggregate_id, authResp, resp))

CreateAggregate ==
    /\ self_config # None
    /\ \E aggregate_data \in AggregateData :
       \E authResp \in AuthAnswers(config, JWT_CACHE, FALSE) :
       \E resp \in DataAnswers(get_public_headers(config, JWT_CACHE, authResp),
                               PlainPayloads) :
           PublicStep("create_aggregate", [aggregate_data |-> aggregate_data],
                      create_aggregate(self_config[1], config, JWT_CACHE,
                                       aggregate_data, authResp, resp))

UpdateAggregate ==
    /\ self_config # None
    /\ \E aggregate_id \in AggregateIds, aggregate_data \in AggregateData :
       \E authResp \in AuthAnswers(config, JWT_CACHE, FALSE) :
       \E resp \in DataAnswers(get_public_headers(config, JWT_CACHE, authResp),
                               PlainPayloads) :
           PublicStep("update_aggregate",
                      [aggregate_id |-> aggregate_id, aggregate_data |-> aggregate_data],
                      update_aggregate(self_config[1], config, JWT_CACHE,
                                       aggregate_id, aggregate_data, authResp, resp))

DeleteAggregate ==
    /\ self_config # None
    /\ \E aggregate_id \in AggregateIds :
       \E authResp \in AuthAnswers(config, JWT_CACHE, FALSE) :
       \E resp \in DataAnswers(get_public_headers(config, JWT_CACHE, authResp),
                               PlainPayloads) :
           PublicStep("delete_aggregate", [aggregate_id |-> aggregate_id],
                      delete_aggregate(self_config[1], config, JWT_CACHE,
                                       aggregate_id, authResp, resp))

RefreshAggregate ==
    /\ self_config # None
    /\ \E aggregate_id \in AggregateIds :
       \E authResp \in AuthAnswers(config, JWT_CACHE, FALSE) :
       \E resp \in DataAnswers(get_public_headers(config, JWT_CACHE, authResp),
                               PlainPayloads) :
           PublicStep("refresh_aggregate", [aggregate_id |-> aggregate_id],
                      refresh_aggregate(self_config[1], config, JWT_CACHE,
                                        aggregate_id, authResp, resp))

\* the token provider alone, over every profile
InitProvider == Started(Profiles)

NextProvider ==
    \/ GetJwt
    \/ GetContainerJwt
    \/ ClearJwtCache

SpecProvider == InitProvider /\ [][NextProvider]_vars

\* config.json is rewritten between two calls
EditConfig ==
    /\ config' \in AdapterProfiles \ {config}
    /\ last' = Call("edit config.json", NoArgs, Return(None, None, <<>>, <<>>))
    /\ UNCHANGED <<JWT_CACHE, CONTAINER_JWT_CACHE, self_config>>

\* the token provider while config.json changes under it
InitEdit == Started(AdapterProfiles)

NextEdit ==
    \/ GetJwt
    \/ GetContainerJwt
    \/ ClearJwtCache
    \/ EditConfig

SpecEdit == InitEdit /\ [][NextEdit]_vars

\* the token provider and the adapter
Init == Started(AdapterProfiles)

Next ==
    \/ GetJwt
    \/ GetContainerJwt
    \/ ClearJwtCache
    \/ NewClient
    \/ GetPublishedProjects
    \/ GetAggregatesByCube
    \/ RebuildCube
    \/ GetAggregateBuildHistory
    \/ GetAggregates
    \/ GetAggregateDetails
    \/ CreateAggregate
    \/ UpdateAggregate
    \/ DeleteAggregate
    \/ RefreshAggregate

Spec == Init /\ [][Next]_vars

---------------------------------------------------------------------------
(* main.py: the non-interactive commands *)

\* what argparse yields: the three flags, and the two identifiers (None when
\* the option is not given)
CliArgs ==
    {a \in [list_projects : BOOLEAN, export_csv : BOOLEAN, list_aggregates : BOOLEAN,
            project_id : {None, Some(""), Some("p1")}, cube_id : {None, Some("c1")}] :
        a.list_projects \/ a.export_csv \/ a.list_aggregates}

\* `not args.project_id or not args.cube_id`
MissingIds(args) ==
    \/ args.project_id = None \/ args.project_id[1] = ""
    \/ args.cube_id = None \/ args.cube_id[1] = ""

UsageError == Error("UsageError", "--project-id and --cube-id")

\* The end of the process: its exit code, the first error that one of its
\* steps met (NoError when every step succeeded), the public slot, the
\* requests sent and the lines printed.
Exit(code, error, cache, reqs, out) ==
    [outcome |-> "exit", value |-> code, error |-> error,
     cache |-> cache, reqs |-> reqs, out |-> out]

\* CubeAggregateReporter.export_cube_aggregates_csv and list_cube_aggregates:
\* the aggregates are fetched inside a try block whose except clause prints
\* the exception and returns; what is done with the aggregates once fetched
\* is inside the same try block
reporter_fetch(self, cfg, cache, cube_data, authResp, resp) ==
    LET a == get_aggregates_by_cube(self, cfg, cache, cube_data.project_id,
                                    cube_data.cube_id, TransformLimit, authResp, resp)
    IN  IF a.outcome = "raise"
        THEN [a EXCEPT !.outcome = "return", !.out = Append(a.out, Line("Error", None))]
        ELSE [a EXCEPT !.value = None]

\* list_all_projects(), after ReportGenerator()
list_all_projects(self, cfg, cache, authResp, resp) ==
    LET p == get_published_projects(self, cfg, cache, authResp, resp) IN
    IF p.outcome = "raise"
    THEN Exit(1, p.error, p.cache, p.reqs, Append(p.out, Line("Error listing projects", None)))
    ELSE Exit(0, NoError, p.cache, p.reqs, p.out)

\* direct_export_csv(project_id, cube_id) and direct_list_aggregates(project_id,
\* cube_id), after ReportGenerator(): the projects are fetched, then the
\* reporter is called; sys.exit(0) of __main__ follows a normal return
direct_command(self, cfg, cache, project_id, cube_id, authResp, resp, authResp2, resp2) ==
    LET p == get_published_projects(self, cfg, cache, authResp, resp) IN
    IF p.outcome = "raise"
    THEN Exit(1, p.error, p.cache, p.reqs, Append(p.out, Line("Error during direct", None)))
    ELSE LET a == reporter_fetch(self, cfg, p.cache,
                                 [project_id |-> project_id, cube_id |-> cube_id],
                                 authResp2, resp2)
         IN  Exit(0, a.error, a.cache, p.reqs \o a.reqs, p.out \o a.out)

\* the `if __name__ == "__main__"` block for a command-line flag
main(cfg, cache, args, authResp, resp, authResp2, resp2) ==
    IF ~args.list_projects /\ MissingIds(args)
    THEN Exit(1, UsageError, cache, <<>>, <<Line("ERROR", None)>>)
    ELSE IF NewClientError(cfg) # NoError
    \* ReportGenerator() is outside the try blocks: the interpreter prints the
    \* traceback and exits with 1
    THEN Exit(1, NewClientError(cfg), cache, <<>>, <<>>)
    ELSE IF args.list_projects
    THEN list_all_projects(cfg, cfg, cache, authResp, resp)
    ELSE direct_command(cfg, cfg, cache, args.project_id[1], args.cube_id[1],
                        authResp, resp, authResp2, resp2)

\* the command reaches the reporter with the public slot p.cache
ReachesReporter(cfg, cache, args, authResp, resp) ==
    /\ ~args.list_projects
    /\ ~MissingIds(args)
    /\ NewClientError(cfg) = NoError
    /\ get_published_projects(cfg, cfg, cache, authResp, resp).outcome = "return"

\* one run of main.py with a flag: the process starts, runs the command and exits
Main ==
    /\ last.op = "start"
    /\ \E args \in CliArgs :
       \E authResp \in IF ~args.list_projects /\ MissingIds(args) THEN {NoAnswer}
                        ELSE AuthAnswers(config, JWT_CACHE, FALSE) :
       \E resp \in IF (~args.list_projects /\ MissingIds(args))
                       \/ NewClientError(config) # NoError
                    THEN {NoAnswer}
                    ELSE DataAnswers(get_public_headers(config, JWT_CACHE, authResp),
                                     ProjectPayloads(config)) :
       LET reaches == ReachesReporter(config, JWT_CACHE, args, authResp, resp)
           cache2 == IF reaches
                     THEN get_published_projects(config, config, JWT_CACHE,
                                                 authResp, resp).cache
                     ELSE JWT_CACHE
       IN  \E authResp2 \in IF reaches THEN AuthAnswers(config, cache2, FALSE)
                             ELSE {NoAnswer} :
           \E resp2 \in IF reaches
                         THEN DataAnswers(get_public_headers(config, cache2, authResp2),
                                          AggPayloads(config))
                         ELSE {NoAnswer} :
               LET r == main(config, JWT_CACHE, args, authResp, resp, authResp2, resp2) IN
               /\ JWT_CACHE' = r.cache
               /\ self_config' = IF (args.list_projects \/ ~MissingIds(args))
                                     /\ NewClientError(config) = NoError
                                  THEN Some(config) ELSE self_config
               /\ last' = Call("main", args, r)
               /\ UNCHANGED <<config, CONTAINER_JWT_CACHE>>

InitCli == Started(AdapterProfiles)

NextCli == Main

SpecCli == InitCli /\ [][NextCli]_vars

---------------------------------------------------------------------------
(* main.py: the Refresh Token action of the menu *)

\* the action without its clear_jwt_cache()
refresh_token_action_keeps_cache(cfg, cache, ccache, resp) ==
    LET r == get_jwt(cfg, cache, TRUE, resp) IN
    [outcome |-> "return", value |-> None, error |-> r.error, reqs |-> r.reqs,
     out |-> Append(r.out, Line(IF r.outcome = "raise" THEN "Error refreshing token"
                                ELSE "Token refreshed successfully", None)),
     JWT |-> r.cache, CONTAINER_JWT |-> ccache]

\* refresh_token_action(): clear_jwt_cache(), then get_jwt(force_refresh=True)
\* in a try block whose except clause prints the exception; cache and ccache
\* are the two slots when the action starts
refresh_token_action(cfg, cache, ccache, resp) ==
    LET r == get_jwt(cfg, clear_jwt_cache.JWT, TRUE, resp) IN
    [outcome |-> "return", value |-> None, error |-> r.error, reqs |-> r.reqs,
     out |-> Append(r.out, Line(IF r.outcome = "raise" THEN "Error refreshing token"
                                ELSE "Token refreshed successfully", None)),
     JWT |-> r.cache, CONTAINER_JWT |-> clear_jwt_cache.CONTAINER_JWT]

RefreshTokenAction ==
    \E resp \in AuthAnswers(config, None, TRUE) :
        LET r == refresh_token_action(config, JWT_CACHE, CONTAINER_JWT_CACHE, resp) IN
        /\ JWT_CACHE' = r.JWT
        /\ CONTAINER_JWT_CACHE' = r.CONTAINER_JWT
        /\ last' = Call("refresh_token_action", NoArgs, r)
        /\ UNCHANGED <<config, self_config>>

---------------------------------------------------------------------------
(* One process run while config.json is rewritten *)

\* the adapter is constructed at some point of the run (self.config is read
\* then), the token provider reads config.json at every call, and the menu's
\* Refresh Token action may be chosen at any time
NextRun ==
    \/ NewClient
    \/ EditConfig
    \/ GetJwt
    \/ GetContainerJwt
    \/ ClearJwtCache
    \/ GetPublishedProjects
    \/ RefreshTokenAction

SpecRun == InitEdit /\ [][NextRun]_vars

---------------------------------------------------------------------------
(* config.py: validate_config *)

\* the container branch asks for the host only
validate_config_host_only(cfg) ==
    LET instance_type == IF cfg.instance_type = None THEN "installer"
                         ELSE cfg.instance_type[1]
        required == IF instance_type = "installer"
                    THEN {"host", "username", "password", "organization"}
                    ELSE {"host"}
        missing == {field \in required : cfg[field] = None}
    IN  IF instance_type \notin {"installer", "container"}
        THEN Raise(Error("ValueError", "Invalid instance_type"), None, <<>>, <<>>)
        ELSE IF missing # {}
        THEN Raise(Error("ValueError", "config missing fields"), None, <<>>, <<>>)
        ELSE Return(Some(cfg), None, <<>>, <<>>)

\* validate_config(): config.get("instance_type", "installer") selects the
\* required fields; a field is missing when its key is not in the file
validate_config(cfg) ==
    LET instance_type == IF cfg.instance_type = None THEN "installer"
                         ELSE cfg.instance_type[1]
        required == IF instance_type = "installer"
                    THEN {"host", "username", "password", "organization"}
                    ELSE {"host", "token"}
        missing == {field \in required : cfg[field] = None}
    IN  IF instance_type \notin {"installer", "container"}
        THEN Raise(Error("ValueError", "Invalid instance_type"), None, <<>>, <<>>)
        ELSE IF missing # {}
        THEN Raise(Error("ValueError", "config missing fields"), None, <<>>, <<>>)
        ELSE Return(Some(cfg), None, <<>>, <<>>)

ValidateConfig ==
    /\ last' = Call("validate_config", NoArgs, validate_config(config))
    /\ UNCHANGED <<config, JWT_CACHE, CONTAINER_JWT_CACHE, self_config>>

\* the validator and the token provider, over every profile
NextValidate ==
    \/ ValidateConfig
    \/ GetJwt
    \/ GetContainerJwt
    \/ ClearJwtCache

SpecValidate == InitProvider /\ [][NextValidate]_vars

---------------------------------------------------------------------------
(* rebuild_manager.py: the interactive rebuild *)

\* the project::cube options built from the projects, in their order
RECURSIVE cube_options(_)
cube_options(projects) ==
    IF projects = <<>> THEN <<>>
    ELSE LET project == Head(projects)
             cubes == Get(project, "cubes", <<>>)
         IN  [j \in 1..Len(cubes) |->
                 [project_id |-> Get(project, "id", ""),
                  cube_id |-> Get(cubes[j], "id", "")]]
             \o cube_options(Tail(projects))

\* the flow that does not wait for the confirmation
RebuildManager_rebuild_cube_unconfirmed(self, cfg, cache, choice, confirmed, authResp, resp, authResp2, resp2) ==
    LET p == get_published_projects(self, cfg, cache, authResp, resp)
        options == cube_options(p.value)
        selected == options[choice]
        e == rebuild_cube(self, cfg, p.cache, selected.project_id, selected.cube_id,
                          TRUE, authResp2, resp2)
    IN  IF p.outcome = "raise"
        THEN [Return(None, p.cache, p.reqs, Append(p.out, Line("Error", None)))
                 EXCEPT !.error = p.error]
        ELSE IF p.value = <<>> \/ options = <<>> \/ choice = 0
        THEN Return(None, p.cache, p.reqs, Append(p.out, Line("No cube", None)))
        ELSE [Return(Some(selected), e.cache, p.reqs \o e.reqs,
                     Append(p.out \o e.out, Line("Rebuild request", None)))
                 EXCEPT !.error = e.error]

\* RebuildManager.rebuild_cube() with execute_rebuild(): the projects are
\* fetched, the user picks option `choice` of the selector (0: 'q', no cube)
\* and answers the confirmation; both methods print the exception they catch
\* and return.  The value is the option selected, None when there is none.
RebuildManager_rebuild_cube(self, cfg, cache, choice, confirmed, authResp, resp, authResp2, resp2) ==
    LET p == get_published_projects(self, cfg, cache, authResp, resp)
        options == cube_options(p.value)
        selected == options[choice]
        e == rebuild_cube(self, cfg, p.cache, selected.project_id, selected.cube_id,
                          TRUE, authResp2, resp2)
    IN  IF p.outcome = "raise"
        THEN [Return(None, p.cache, p.reqs, Append(p.out, Line("Error", None)))
                 EXCEPT !.error = p.error]
        ELSE IF p.value = <<>> \/ options = <<>> \/ choice = 0
        THEN Return(None, p.cache, p.reqs, Append(p.out, Line("No cube", None)))
        ELSE IF ~confirmed
        THEN Return(Some(selected), p.cache, p.reqs, p.out)
        ELSE [Return(Some(selected), e.cache, p.reqs \o e.reqs,
                     Append(p.out \o e.out, Line("Rebuild request", None)))
                 EXCEPT !.error = e.error]

\* menu choice 2 on the RebuildManager constructed by main_menu()
RebuildFlow ==
    /\ self_config # None
    /\ \E authResp \in AuthAnswers(config, JWT_CACHE, FALSE) :
       \E resp \in DataAnswers(get_public_headers(config, JWT_CACHE, authResp),
                               ProjectPayloads(self_config[1])) :
       LET p == get_published_projects(self_config[1], config, JWT_CACHE, authResp, resp)
           options == IF p.outcome = "raise" THEN <<>> ELSE cube_options(p.value)
       IN  \E choice \in 0..Len(options), confirmed \in BOOLEAN :
           \E authResp2 \in IF choice # 0 /\ confirmed
                            THEN AuthAnswers(config, p.cache, FALSE) ELSE {NoAnswer} :
           \E resp2 \in IF choice # 0 /\ confirmed
                        THEN DataAnswers(get_public_headers(config, p.cache, authResp2),
                                         PlainPayloads)
                        ELSE {NoAnswer} :
               PublicStep("RebuildManager.rebuild_cube",
                          [choice |-> choice, confirmed |-> confirmed],
                          RebuildManager_rebuild_cube(self_config[1], config, JWT_CACHE,
                              choice, confirmed, authResp, resp, authResp2, resp2))

\* the menu: the adapter of the RebuildManager is constructed, then the
\* rebuild and the token refresh are chosen in any order
SpecMenu == Init /\ [][NewClient \/ RebuildFlow \/ RefreshTokenAction]_vars

---------------------------------------------------------------------------
(* aggregate_health_checker.py: the health check *)

\* the number of aggregates in the answers of the health check: at most
MaxAggregates == 2

\* the score without its max(0, ...)
health_score_unclamped(total, issues, warnings) ==
    100 * total - 50 * issues - 25 * warnings

\* health_score = max(0, 100 - (issues / total) * 50 - (warnings / total) * 25),
\* kept as the exact fraction of denominator `total`: the value is the
\* score times total, so that the score is 100 exactly when the value is
\* 100 * total and 0 exactly when it is 0
health_score(total, issues, warnings) ==
    LET score == 100 * total - 50 * issues - 25 * warnings IN
    IF score < 0 THEN 0 ELSE score

\* check_cube_aggregate_health(cube_data): the aggregates are fetched, each
\* is examined for one issue (status) and four warnings (rows, build time,
\* query utilization, age of the last query; "old date" stands for a date
\* more than 30 days before now), and the score is printed.  The except
\* clause prints the exception and returns.  The value is what the summary
\* prints, None when there is no summary.
check_cube_aggregate_health(self, cfg, cache, cube_data, authResp, resp) ==
    LET a == get_aggregates_by_cube(self, cfg, cache, cube_data.project_id,
                                    cube_data.cube_id, TransformLimit, authResp, resp)
        aggregates_data == Get(Get(a.value, "response", EmptyDict), "data", <<>>)
        latest(agg) == Get(agg, "latest_instance", EmptyDict)
        status(agg) == Get(latest(agg), "status", "")
        rows(agg) == Get(Get(latest(agg), "stats", EmptyDict), "number_of_rows", 0)
        build_time(agg) == Get(Get(latest(agg), "stats", EmptyDict), "build_duration", 0)
        query_util(agg) == Get(Get(agg, "stats", EmptyDict), "query_utilization", 0)
        last_query(agg) == Get(Get(agg, "stats", EmptyDict), "most_recent_query", "")
        count(P(_)) == Cardinality({i \in 1..Len(aggregates_data) : P(aggregates_data[i])})
        issues == count(LAMBDA agg : status(agg) # "active")
        warnings ==
            count(LAMBDA agg : rows(agg) = 0)
            + count(LAMBDA agg : build_time(agg) > 30000)
            + count(LAMBDA agg : query_util(agg) = 0 /\ last_query(agg) = "")
            + count(LAMBDA agg : last_query(agg) = "old date")
        total == Len(aggregates_data)
    IN  IF a.outcome = "raise"
        THEN [Return(None, a.cache, a.reqs, Append(a.out, Line("Error", None)))
                 EXCEPT !.error = a.error]
        ELSE IF aggregates_data = <<>>
        THEN Return(None, a.cache, a.reqs, Append(a.out, Line("No aggregates found", None)))
        ELSE Return(Some([total |-> total, issues |-> issues, warnings |-> warnings,
                          health_score_times_total |->
                              health_score(total, issues, warnings)]),
                    a.cache, a.reqs, Append(a.out, Line("Health Score", None)))

\* one run of the report menu's health check: ReportGenerator() constructs
\* the adapter, then the check runs on the cube selected.  An Installer
\* answers with an envelope of up to MaxAggregates aggregates, each active or
\* failed, with or without rows, built fast or slowly, used or not and
\* queried never, long ago or recently.
CheckCubeAggregateHealth ==
    LET aggs == {[CanonicalAgg EXCEPT
                     !.latest_instance.status = s,
                     !.latest_instance.stats.number_of_rows = r,
                     !.latest_instance.stats.build_duration = b,
                     !.stats.query_utilization = q[1],
                     !.stats.most_recent_query = q[2]] :
                 s \in {"active", "failed"}, r \in {0, 5}, b \in {30000, 30001},
                 q \in {<<0, "">>, <<3, "">>, <<3, "old date">>, <<3, "recent date">>}}
        lists == UNION {[1..n -> aggs] : n \in 0..MaxAggregates}
        payloads == IF IsInstaller(config)
                    THEN {Envelope(l, Len(l), TransformLimit, 0) : l \in lists}
                    ELSE ContainerAggPayloads
    IN  /\ last.op = "start"
        /\ NewClientError(config) = NoError
        /\ \E authResp \in AuthAnswers(config, JWT_CACHE, FALSE) :
           \E resp \in DataAnswers(get_public_headers(config, JWT_CACHE, authResp), payloads) :
               LET r == check_cube_aggregate_health(config, config, JWT_CACHE,
                            [project_id |-> "p1", cube_id |-> "c1"], authResp, resp)
               IN  /\ JWT_CACHE' = r.cache
                   /\ self_config' = Some(config)
                   /\ last' = Call("check_cube_aggregate_health", NoArgs, r)
                   /\ UNCHANGED <<config, CONTAINER_JWT_CACHE>>

SpecHealth ==
    Started({Profile(kind, {}, {}) : kind \in {Some("installer"), Some("container")}})
    /\ [][CheckCubeAggregateHealth]_vars

---------------------------------------------------------------------------
(* Properties of the token provider *)

\* the request log holds an auth request that did not get a 2xx answer
AuthFailed(call) ==
    /\ call.reqs # <<>>
    /\ call.reqs[1].request.endpoint = "auth"
    /\ (call.reqs[1].response.kind # "response" \/ RaisesForStatus(call.reqs[1].response))

\* C1: on an Installer profile, once a successful get_jwt has written the
\* public slot, get_jwt(force_refresh=False) issues no auth request and returns
\* the cached token, whatever body the auth endpoint answered with.
C1_WarmCacheIssuesNoRequest ==
    (/\ last.op = "get_jwt"
     /\ IsInstaller(config)
     /\ ~last.args.force_refresh
     /\ last.pre_JWT # None)
    => (/\ last.reqs = <<>>
        /\ last.outcome = "return"
        /\ last.value = last.pre_JWT)

\* C2 as stated: on every instance kind, get_jwt(force_refresh=False) right
\* after clear_jwt_cache() issues exactly one auth request.
C2_OneRequestAfterClearAnyKind ==
    (/\ last.op = "get_jwt"
     /\ last.after_clear
     /\ ~last.args.force_refresh)
    => Len(last.reqs) = 1

\* C2 amended: right after clear_jwt_cache(), get_jwt(force_refresh=False)
\* issues exactly one auth request on an Installer profile that holds the
\* fields get_jwt reads, and none on any other profile.
C2_OneRequestAfterClear ==
    (/\ last.op = "get_jwt"
     /\ last.after_clear
     /\ ~last.args.force_refresh)
    => IF IsInstaller(config) /\ HasAuthFields(config)
       THEN /\ Len(last.reqs) = 1
            /\ last.reqs[1].request.endpoint = "auth"
       ELSE last.reqs = <<>>

C2_Witness ==
    /\ last.op = "get_jwt"
    /\ last.after_clear
    /\ ~last.args.force_refresh
    /\ IsInstaller(config)
    /\ Len(last.reqs) = 1
    /\ last.outcome = "return"

\* one of client_id, client_secret, username, password is missing or empty
LacksOidcCredential(cfg) ==
    \E f \in {"client_id", "client_secret", "username", "password"} : ~Truthy(cfg[f])

\* C3: on a Container profile that lacks one of client_id, client_secret,
\* username, password, get_container_jwt returns None, does not raise and
\* issues no request, whatever else the profile holds.
C3_MissingCredentialIsUnavailable ==
    (/\ last.op = "get_container_jwt"
     /\ IsContainer(config)
     /\ LacksOidcCredential(config))
    => (/\ last.outcome = "return"
        /\ last.value = None
        /\ last.reqs = <<>>)

\* C4: on an Installer profile get_container_jwt raises its ValueError, issues
\* no request and leaves both cache slots as they were, for both values of
\* force_refresh and whatever the slots hold.
C4_InstallerPrivateTokenUnsupported ==
    (/\ last.op = "get_container_jwt"
     /\ IsInstaller(config))
    => (/\ last.outcome = "raise"
        /\ last.error = Error("ValueError", "only container")
        /\ last.reqs = <<>>
        /\ JWT_CACHE = last.pre_JWT
        /\ CONTAINER_JWT_CACHE = last.pre_CONTAINER_JWT)

C4_Witness ==
    /\ last.op = "get_container_jwt"
    /\ IsInstaller(config)
    /\ ~last.args.force_refresh
    /\ Truthy(last.pre_CONTAINER_JWT)
    /\ last.outcome = "raise"

\* C10: when the auth request of get_jwt fails (no answer, or a 4xx or 5xx
\* answer), get_jwt raises the request's error and both cache slots hold what
\* they held before the call.
C10_FailedAuthLeavesCache ==
    (/\ last.op = "get_jwt"
     /\ IsInstaller(config)
     /\ AuthFailed(last))
    => (/\ last.outcome = "raise"
        /\ last.error = RequestError(last.reqs[1].response)
        /\ JWT_CACHE = last.pre_JWT
        /\ CONTAINER_JWT_CACHE = last.pre_CONTAINER_JWT)

C10_Witness ==
    /\ last.op = "get_jwt"
    /\ IsInstaller(config)
    /\ last.args.force_refresh
    /\ AuthFailed(last)
    /\ Truthy(last.pre_JWT)
    /\ Truthy(last.pre_CONTAINER_JWT)
    /\ JWT_CACHE = last.pre_JWT

---------------------------------------------------------------------------
(* Properties of the adapter *)

\* the answer to the last request of a call
LastResponse(call) == call.reqs[Len(call.reqs)].response

\* the call sent a request to the data endpoint of its method and got an answer
DataAnswered(call) ==
    /\ call.reqs # <<>>
    /\ call.reqs[Len(call.reqs)].request.endpoint \notin {"auth", "oidc"}
    /\ LastResponse(call).kind = "response"

\* two dicts with the same keys and the same values
SameDict(a, b) == DOMAIN a = DOMAIN b /\ \A k \in DOMAIN a : a[k] = b[k]

\* deep equality of two instance records: the same keys, the same values and
\* the same nested statistics
SameInstance(a, b) ==
    /\ DOMAIN a = DOMAIN b
    /\ \A k \in DOMAIN a \ {"stats"} : a[k] = b[k]
    /\ SameDict(a.stats, b.stats)

\* C5: for every record of a Container answer, the normalized record's
\* latest_instance.stats.number_of_rows is the source's stats.numberOfRows and
\* its active_instance deep-equals its latest_instance.
C5_ContainerRoundTrip ==
    (/\ last.op = "get_aggregates_by_cube"
     /\ IsContainer(self_config[1])
     /\ last.outcome = "return")
    => LET source == Get(LastResponse(last).json[1], "data", <<>>)
           data == last.value.response.data
       IN  \A i \in 1..Len(data) :
               /\ data[i].latest_instance.stats.number_of_rows
                      = Get(Get(source[i], "stats", EmptyDict), "numberOfRows", 0)
               /\ SameInstance(data[i].active_instance, data[i].latest_instance)

\* C6: on an Installer profile the value that get_aggregates_by_cube and
\* get_aggregate_build_history return is the decoded answer of the backend.
C6_InstallerIdentity ==
    (/\ last.op \in {"get_aggregates_by_cube", "get_aggregate_build_history"}
     /\ IsInstaller(self_config[1])
     /\ last.outcome = "return")
    => (/\ DataAnswered(last)
        /\ LastResponse(last).json # None
        /\ last.value = LastResponse(last).json[1])

C6_Witness ==
    /\ last.op = "get_aggregates_by_cube"
    /\ IsInstaller(self_config[1])
    /\ last.outcome = "return"
    /\ last.value = [data |-> <<FullAgg>>]

\* the rebuild requests a call sent
RebuildRequests(call) ==
    {i \in 1..Len(call.reqs) : call.reqs[i].request.endpoint = "rebuild"}

\* C7: a rebuild request is a POST; on a Container profile it carries the
\* body {gracePeriodOverrides: {}} and on an Installer profile no body, for
\* both values of is_full_build, which shows in the isFullBuild query
\* parameter only.
C7_RebuildBodyAsymmetry ==
    last.op = "rebuild_cube"
    => \A i \in RebuildRequests(last) :
           LET req == last.reqs[i].request IN
           /\ req.method = "POST"
           /\ req.data = None
           /\ req.timeout = RebuildTimeout
           /\ req.url.query.isFullBuild = LowerStr(last.args.is_full_build)
           /\ IsContainer(self_config[1])
                  => /\ req.json = Some([gracePeriodOverrides |-> EmptyDict])
                     /\ req.url.query = [isFullBuild |-> LowerStr(last.args.is_full_build)]
                     /\ req.url.args = [catalog_id |-> last.args.catalog_id,
                                        model_id |-> last.args.model_id]
           /\ IsInstaller(self_config[1])
                  => /\ req.json = None
                     /\ req.url.query = [cubeId |-> last.args.model_id,
                                         isFullBuild |-> LowerStr(last.args.is_full_build)]

C7_Witness ==
    /\ last.op = "rebuild_cube"
    /\ IsContainer(self_config[1])
    /\ ~last.args.is_full_build
    /\ RebuildRequests(last) # {}
    /\ last.outcome = "return"

\* C8: on a Container profile without client_id or without client_secret,
\* get_aggregate_build_history returns the empty envelope, prints the one
\* warning line, does not raise and sends no request.
C8_HistoryGated ==
    (/\ last.op = "get_aggregate_build_history"
     /\ IsContainer(self_config[1])
     /\ IsContainer(config)
     /\ (~Truthy(config.client_id) \/ ~Truthy(config.client_secret)))
    => (/\ last.outcome = "return"
        /\ last.value = Envelope(<<>>, 0, last.args.limit, 0)
        /\ last.out = <<HistoryWarning>>
        /\ last.reqs = <<>>)

C8_Witness ==
    /\ last.op = "get_aggregate_build_history"
    /\ IsContainer(self_config[1])
    /\ config.client_id = None
    /\ config.client_secret = None
    /\ last.outcome = "return"
    /\ last.out = <<HistoryWarning>>

\* the methods that call a data endpoint
DataMethods ==
    {"get_published_projects", "get_aggregates_by_cube", "get_aggregate_details",
     "get_aggregates", "create_aggregate", "update_aggregate", "delete_aggregate",
     "refresh_aggregate", "rebuild_cube", "get_aggregate_build_history"}

\* C9: when a data endpoint answers with a status outside 2xx, the method
\* raises an error that carries that status code.
C9_Non2xxRaises ==
    (/\ last.op \in DataMethods
     /\ DataAnswered(last)
     /\ (LastResponse(last).status_code < 200 \/ LastResponse(last).status_code > 299))
    => (/\ last.outcome = "raise"
        /\ last.error.type = "HTTPError"
        /\ last.error.status_code = LastResponse(last).status_code)

---------------------------------------------------------------------------
(* Further properties of the token provider *)

\* C11: on a Container profile get_jwt sends no request and leaves both cache
\* slots as they were, for both values of force_refresh; it returns the token
\* of config.json when there is one and raises its ValueError when there is
\* none.
C11_ContainerStaticToken ==
    (/\ last.op = "get_jwt"
     /\ IsContainer(config))
    => (/\ last.reqs = <<>>
        /\ JWT_CACHE = last.pre_JWT
        /\ CONTAINER_JWT_CACHE = last.pre_CONTAINER_JWT
        /\ IF Truthy(config.token)
           THEN last.outcome = "return" /\ last.value = config.token
           ELSE /\ last.outcome = "raise"
                /\ last.error = Error("ValueError", "token required"))

C11_Witness ==
    /\ last.op = "get_jwt"
    /\ IsContainer(config)
    /\ last.args.force_refresh
    /\ Truthy(last.pre_JWT)
    /\ last.outcome = "return"
    /\ last.value = config.token
    /\ last.value # last.pre_JWT

\* the OIDC exchange of the call got no answer, or a 4xx or 5xx answer
OidcFailed(call) ==
    /\ call.reqs # <<>>
    /\ call.reqs[1].request.endpoint = "oidc"
    /\ (call.reqs[1].response.kind # "response"
        \/ RaisesForStatus(call.reqs[1].response))

\* C12: on a Container profile that holds the four OIDC credentials, when the
\* token exchange fails (no answer, or a 4xx or 5xx answer) get_container_jwt
\* prints its warning and returns None; it does not raise.
C12_OidcSoftFail ==
    (/\ last.op = "get_container_jwt"
     /\ IsContainer(config)
     /\ ~LacksOidcCredential(config)
     /\ OidcFailed(last))
    => (/\ last.outcome = "return"
        /\ last.value = None
        /\ last.out = <<JwtWarning>>)

C12_Witness ==
    /\ last.op = "get_container_jwt"
    /\ IsContainer(config)
    /\ ~LacksOidcCredential(config)
    /\ OidcFailed(last)
    /\ last.reqs[1].response.kind = "Timeout"
    /\ last.outcome = "return"
    /\ last.out = <<JwtWarning>>

\* C13: a call of get_jwt or of get_container_jwt, forced or not, succeeding
\* or failing, leaves no cache slot empty (None) that held a non-empty token
\* before it.
C13_CacheKeptUntilClear ==
    last.op \in {"get_jwt", "get_container_jwt"}
    => (/\ Truthy(last.pre_JWT) => JWT_CACHE # None
        /\ Truthy(last.pre_CONTAINER_JWT) => CONTAINER_JWT_CACHE # None)

\* C14: clear_jwt_cache() leaves both cache slots empty, whatever they held,
\* and sends no request.
C14_ClearResetsBoth ==
    last.op = "clear_jwt_cache"
    => (/\ JWT_CACHE = None
        /\ CONTAINER_JWT_CACHE = None
        /\ last.outcome = "return"
        /\ last.reqs = <<>>)

C14_Witness ==
    /\ last.op = "clear_jwt_cache"
    /\ Truthy(last.pre_JWT)
    /\ Truthy(last.pre_CONTAINER_JWT)
    /\ JWT_CACHE = None
    /\ CONTAINER_JWT_CACHE = None

---------------------------------------------------------------------------
(* Further properties of the adapter *)

\* C15: one call of a token-provider function or of an adapter method sends
\* at most one request to each endpoint; a request that failed is not sent
\* again by that call.
C15_NoRetry ==
    \A i, j \in 1..Len(last.reqs) :
        i # j => last.reqs[i].request.endpoint # last.reqs[j].request.endpoint

C15_Witness ==
    /\ last.op = "get_aggregate_build_history"
    /\ Len(last.reqs) = 2
    /\ last.reqs[1].request.endpoint = "oidc"
    /\ last.reqs[2].request.endpoint = "build_history"
    /\ last.reqs[2].response.kind = "Timeout"
    /\ last.outcome = "raise"

\* the requests a call sent to a data endpoint
DataRequests(call) ==
    {i \in 1..Len(call.reqs) : call.reqs[i].request.endpoint \notin {"auth", "oidc"}}

\* the token get_jwt yields for the adapter once the call is over
PublicToken ==
    IF IsInstaller(self_config[1]) THEN JWT_CACHE[1] ELSE config.token[1]

\* C16: the data request of every public method carries the public token as
\* its bearer; the build-history request carries the private token on a
\* Container profile and the public token on an Installer profile, where the
\* call neither sends an OIDC request, nor touches the private slot, nor
\* raises the error of get_container_jwt.
C16_HeaderPolicy ==
    /\ last.op \in DataMethods \ {"get_aggregate_build_history"}
           => \A i \in DataRequests(last) :
                  last.reqs[i].request.headers.Authorization = Bearer(PublicToken)
    /\ last.op = "get_aggregate_build_history"
           => /\ \A i \in DataRequests(last) :
                     last.reqs[i].request.headers.Authorization
                         = Bearer(IF IsInstaller(self_config[1]) THEN PublicToken
                                  ELSE CONTAINER_JWT_CACHE[1])
              /\ IsInstaller(self_config[1])
                     => /\ \A i \in 1..Len(last.reqs) :
                               last.reqs[i].request.endpoint # "oidc"
                        /\ CONTAINER_JWT_CACHE = last.pre_CONTAINER_JWT
                        /\ last.error # Error("ValueError", "only container")

C16_Witness ==
    /\ last.op = "get_aggregate_build_history"
    /\ IsContainer(self_config[1])
    /\ Truthy(config.token)
    /\ last.pre_CONTAINER_JWT = None
    /\ Len(last.reqs) = 2
    /\ last.reqs[2].request.headers.Authorization = Bearer(<<"k">>)
    /\ last.reqs[2].request.headers.Authorization # Bearer(config.token[1])
    /\ last.outcome = "return"

\* C17: no GET request that an adapter method sends to a data endpoint has a
\* Content-Type header.
C17_GetOmitsContentType ==
    last.op \in DataMethods
    => \A i \in DataRequests(last) :
           last.reqs[i].request.method = "GET"
               => "Content-Type" \notin DOMAIN last.reqs[i].request.headers

\* the string fields of a normalized aggregate and of its instances, each with
\* the key of the Container record it is taken from
AggStringFields ==
    {<<"id", "definitionId">>, <<"name", "definitionId">>, <<"project_id", "catalogId">>,
     <<"cube_id", "modelId">>, <<"connection_id", "connectionId">>}

InstanceStringFields ==
    {<<"id", "id">>, <<"status", "status">>, <<"message", "message">>,
     <<"table_name", "tableName">>, <<"table_schema", "tableSchema">>,
     <<"batch_id", "buildQueryId">>, <<"connection_id", "connectionId">>}

StatsStringFields ==
    {<<"materialization_start_time", "materializationStartTime">>,
     <<"materialization_end_time", "materializationEndTime">>}

StatsNumericFields ==
    {<<"build_duration", "buildDuration">>, <<"number_of_rows", "numberOfRows">>}

\* every field of `fields` whose key is absent from the record src holds dflt in out
DefaultsTo(fields, src, out, dflt) ==
    \A f \in fields : f[2] \notin DOMAIN src => out[f[1]] = dflt

\* C18: in what the Container branch returns, a field whose key is absent from
\* the backend's aggregate or catalog record holds "" when it is a string and 0
\* when it is a number.
C18_ContainerDefaults ==
    /\ (/\ last.op = "get_aggregates_by_cube"
         /\ IsContainer(self_config[1])
         /\ last.outcome = "return")
        => LET source == Get(LastResponse(last).json[1], "data", <<>>)
               data == last.value.response.data
           IN  \A i \in 1..Len(data) :
                   LET stats == Get(source[i], "stats", EmptyDict) IN
                   /\ DefaultsTo(AggStringFields, source[i], data[i], "")
                   /\ \A inst \in {data[i].latest_instance, data[i].active_instance} :
                          DefaultsTo(InstanceStringFields, source[i], inst, "")
                   /\ DefaultsTo(StatsStringFields, stats, data[i].latest_instance.stats, "")
                   /\ DefaultsTo(StatsNumericFields, stats, data[i].latest_instance.stats, 0)
                   /\ "buildDuration" \notin DOMAIN stats
                          => data[i].stats.average_build_duration = 0
    /\ (/\ last.op = "get_published_projects"
         /\ IsContainer(self_config[1])
         /\ last.outcome = "return")
        => LET source == LastResponse(last).json[1]
               data == last.value
           IN  \A i \in 1..Len(data) :
                   LET models == Get(source[i], "models", <<>>) IN
                   /\ DefaultsTo({<<"id", "id">>, <<"name", "name">>}, source[i], data[i], "")
                   /\ \A j \in 1..Len(models) :
                          DefaultsTo({<<"id", "id">>, <<"name", "name">>,
                                      <<"caption", "caption">>},
                                     models[j], data[i].cubes[j], "")

\* the build-history request of the call was answered with a status outside 2xx
HistoryRejected(call) ==
    /\ call.op = "get_aggregate_build_history"
    /\ DataAnswered(call)
    /\ (LastResponse(call).status_code < 200 \/ LastResponse(call).status_code > 299)

\* C19: when the build-history request is answered with a status outside 2xx,
\* the call raises the request's error, which carries the status code, and
\* the lines it prints hold the status code, the URL and the snippet of the
\* response body.
C19_HistoryDiagnostics ==
    HistoryRejected(last)
    => (/\ last.outcome = "raise"
        /\ last.error = HTTPError(LastResponse(last))
        /\ \E i \in 1..Len(last.out) :
               last.out[i] = Line("Request failed with status",
                                  Some(LastResponse(last).status_code))
        /\ \E i \in 1..Len(last.out) : last.out[i] = Line("URL", None)
        /\ \E i \in 1..Len(last.out) : last.out[i].text = "Response")

---------------------------------------------------------------------------
(* Properties of the command line *)

\* C20: a run of main.py with --list-projects, --export-csv or
\* --list-aggregates exits with code 0 exactly when no step of the command
\* failed: the identifiers it needs were given and every request it sent
\* (project listing, aggregate listing) succeeded.
C20_ExitCodes ==
    last.op = "main" => (last.value = 0 <=> last.error = NoError)

---------------------------------------------------------------------------
(* Properties of the configuration *)

\* C21: the profile is loaded once per run: a call of the adapter takes its
\* token the way the profile the adapter loaded at construction prescribes
\* (the auth requests of the call are those get_jwt sends under that profile),
\* whatever config.json has become since.
C21_ProfileLoadedOnce ==
    last.op = "get_published_projects" =>
        \E authResp \in AuthResponses \cup {NoAnswer} :
            get_jwt(self_config[1], last.pre_JWT, FALSE, authResp).reqs
                = SelectSeq(last.reqs, LAMBDA s : s.request.endpoint = "auth")

\* C22: validate_config accepts the profile exactly when it is an Installer
\* profile (declared, or by the validator's default when the file names no
\* instance type) whose file has host, username, password and organization,
\* or a Container profile whose file has host and token; every other profile
\* is rejected with the configuration error (ValueError); the check sends no
\* request and leaves both cache slots as they were.
C22_ValidateByKind ==
    last.op = "validate_config" =>
        LET has(f) == config[f] # None
            installer == config.instance_type \in {None, Some("installer")}
            accepted ==
                \/ /\ installer
                   /\ has("host") /\ has("username") /\ has("password")
                   /\ has("organization")
                \/ /\ IsContainer(config)
                   /\ has("host") /\ has("token")
        IN  /\ last.outcome = "return" <=> accepted
            /\ last.outcome = "return" => last.value = Some(config)
            /\ last.outcome = "raise" => last.error.type = "ValueError"
            /\ last.reqs = <<>>
            /\ JWT_CACHE = last.pre_JWT
            /\ CONTAINER_JWT_CACHE = last.pre_CONTAINER_JWT

\* a Container profile with a host and a token is accepted while the private
\* slot holds a token
C22_Witness ==
    /\ last.op = "validate_config"
    /\ last.outcome = "return"
    /\ IsContainer(config)
    /\ Truthy(CONTAINER_JWT_CACHE)

\* C23: a profile that validate_config rejects is never loaded: no adapter
\* holds such a profile, and no call has sent a request while config.json
\* holds one.
C23_LoadValidates ==
    /\ self_config # None => validate_config(self_config[1]).outcome = "return"
    /\ last.reqs # <<>> => validate_config(config).outcome = "return"

---------------------------------------------------------------------------
(* Further properties of the results *)

\* C24: every list-returning call of the adapter (get_published_projects,
\* get_aggregates_by_cube, get_aggregates, get_aggregate_build_history) that
\* returns, returns the envelope {response: {data, total, limit, offset}}, on
\* either backend.  Where the adapter passes the backend's answer through
\* unchanged, the answer is taken to be such an envelope.  The keys of a value
\* are compared as text: a list has indices where a dict has keys.
C24_ListCallsReturnEnvelope ==
    LET IsEnvelope(v) ==
            /\ ToString(DOMAIN v) = ToString({"response"})
            /\ ToString(DOMAIN v.response) = ToString({"data", "total", "limit", "offset"})
        passed_through ==
            \/ last.op = "get_aggregates"
            \/ /\ last.op \in {"get_aggregates_by_cube", "get_aggregate_build_history"}
               /\ IsInstaller(self_config[1])
    IN  (/\ last.op \in {"get_published_projects", "get_aggregates_by_cube",
                         "get_aggregates", "get_aggregate_build_history"}
         /\ last.outcome = "return"
         /\ passed_through => IsEnvelope(last.reqs[Len(last.reqs)].response.json[1]))
        => IsEnvelope(last.value)

---------------------------------------------------------------------------
(* Further properties of the token cache *)

\* C25: the cache slots are written by get_jwt, get_container_jwt and
\* clear_jwt_cache only.  get_jwt leaves the private slot and
\* get_container_jwt the public slot as they were; the construction of the
\* adapter changes neither; a call of the adapter changes a slot only by the
\* token request it sent: the slot then holds what get_jwt (get_container_jwt)
\* leaves for the answer that request got.
C25_CacheOwnedByProvider ==
    LET authReqs == SelectSeq(last.reqs, LAMBDA s : s.request.endpoint = "auth")
        oidcReqs == SelectSeq(last.reqs, LAMBDA s : s.request.endpoint = "oidc")
        public_kept == JWT_CACHE = last.pre_JWT
        private_kept == CONTAINER_JWT_CACHE = last.pre_CONTAINER_JWT
    IN  /\ last.op = "get_jwt" => private_kept
        /\ last.op = "get_container_jwt" => public_kept
        /\ last.op \in {"start", "AtScaleAPIClient"} => public_kept /\ private_kept
        /\ last.op \notin {"start", "AtScaleAPIClient", "get_jwt", "get_container_jwt",
                           "clear_jwt_cache"} =>
              /\ \/ public_kept
                 \/ /\ authReqs # <<>>
                    /\ JWT_CACHE = get_jwt(config, last.pre_JWT, FALSE,
                                           authReqs[1].response).cache
              /\ \/ private_kept
                 \/ /\ oidcReqs # <<>>
                    /\ CONTAINER_JWT_CACHE =
                           get_container_jwt(config, last.pre_CONTAINER_JWT, FALSE,
                                             oidcReqs[1].response).cache

\* a build-history call has filled the private slot
C25_Witness ==
    /\ last.op = "get_aggregate_build_history"
    /\ CONTAINER_JWT_CACHE # last.pre_CONTAINER_JWT
    /\ Truthy(CONTAINER_JWT_CACHE)

\* C26: the validator, the token provider and the adapter agree on the
\* instance kind of every profile validate_config accepts: a call of the
\* adapter builds its URL for the backend of the kind the validator found
\* (Installer when config.json names no instance_type), and the token
\* provider takes the token flow of that kind instead of rejecting the kind.
C26_KindAgreement ==
    (/\ last.op = "get_published_projects"
     /\ validate_config(config).outcome = "return") =>
        LET kind == IF config.instance_type = None THEN "installer"
                    ELSE config.instance_type[1]
        IN  /\ Backend(self_config[1]) = kind
            /\ last.error # Error("ValueError", "unknown instance_type")

\* C27: the Refresh Token action returns to the menu in every case.  When it
\* returns the private slot is empty and the public slot is empty or holds
\* the token of the auth request this action sent; when the acquisition
\* failed both slots are empty, whatever they held before, and the error was
\* printed.
C27_RefreshClearsFirst ==
    last.op = "refresh_token_action" =>
        /\ last.outcome = "return"
        /\ CONTAINER_JWT_CACHE = None
        /\ \/ JWT_CACHE = None
           \/ /\ Len(last.reqs) = 1
              /\ last.reqs[1].request.endpoint = "auth"
              /\ last.reqs[1].response.kind = "response"
              /\ JWT_CACHE = Some(Strip(last.reqs[1].response.text))
        /\ last.error # NoError =>
              /\ JWT_CACHE = None
              /\ last.out # <<>>
              /\ last.out[Len(last.out)].text = "Error refreshing token"

\* the acquisition failed while both slots held a token
C27_Witness ==
    /\ last.op = "refresh_token_action"
    /\ last.error # NoError
    /\ Truthy(last.pre_JWT)
    /\ Truthy(last.pre_CONTAINER_JWT)

---------------------------------------------------------------------------
(* Properties of the interactive rebuild *)

\* C28: an invocation of the interactive rebuild sends at most one rebuild
\* request.  When it sends one, the project list was fetched before it, a
\* cube was selected and the user confirmed, and the request is the full
\* build of exactly the selected project and cube; when the user quits the
\* selection or declines the confirmation, none is sent.
C28_RebuildAfterConfirm ==
    last.op = "RebuildManager.rebuild_cube" =>
        LET rebuilds == RebuildRequests(last) IN
        /\ Cardinality(rebuilds) <= 1
        /\ \A i \in rebuilds :
              /\ \E j \in 1..(i - 1) :
                    /\ last.reqs[j].request.endpoint = "projects"
                    /\ last.reqs[j].response.kind = "response"
                    /\ last.reqs[j].response.status_code = 200
              /\ last.args.choice # 0
              /\ last.args.confirmed
              /\ last.value # None
              /\ last.reqs[i].request.url =
                     RebuildUrl(self_config[1], last.value[1].project_id,
                                last.value[1].cube_id, TRUE)
        /\ last.args.choice = 0 \/ ~last.args.confirmed => rebuilds = {}

\* the second of two cubes was selected and confirmed, and its rebuild sent
C28_Witness ==
    /\ last.op = "RebuildManager.rebuild_cube"
    /\ last.args.choice = 2
    /\ last.args.confirmed
    /\ RebuildRequests(last) # {}

\* C29: on the Container backend get_aggregates_by_cube keeps cardinality
\* and order: the envelope's data holds, position by position, the record
\* made from the backend record at that position; total is the number of
\* records in data, offset is 0 and limit is the limit the caller asked for.
C29_ContainerCardinality ==
    (/\ last.op = "get_aggregates_by_cube"
     /\ last.outcome = "return"
     /\ ~IsInstaller(self_config[1])) =>
        LET env == last.value.response
            src == Get(last.reqs[Len(last.reqs)].response.json[1], "data", <<>>)
            one(agg) == transform_container_aggregates([data |-> <<agg>>],
                            last.args.catalog_id, last.args.model_id).response.data[1]
        IN  /\ Len(env.data) = Len(src)
            /\ \A i \in 1..Len(src) : env.data[i] = one(src[i])
            /\ env.total = Len(env.data)
            /\ env.offset = 0
            /\ env.limit = last.args.limit

---------------------------------------------------------------------------
(* Properties of the health check *)

\* C30: for every non-empty list of aggregates the health score is within
\* [0, 100], and it is 100 exactly when the check found no issue and no
\* warning.  (The score is held multiplied by the number of aggregates.)
C30_HealthScoreRange ==
    last.op = "check_cube_aggregate_health" /\ last.value # None =>
        LET v == last.value[1] IN
        /\ v.total > 0
        /\ 0 <= v.health_score_times_total
        /\ v.health_score_times_total <= 100 * v.total
        /\ v.health_score_times_total = 100 * v.total
              <=> (v.issues = 0 /\ v.warnings = 0)

\* every aggregate has the issue and three warnings: the penalties exceed 100
C30_Witness ==
    /\ last.op = "check_cube_aggregate_health"
    /\ last.value # None
    /\ last.value[1].issues = last.value[1].total
    /\ last.value[1].warnings = 3 * last.value[1].total
    /\ last.value[1].health_score_times_total = 0

====
